---------------------------- MODULE Spec2Model ----------------------------
(***************************************************************************)
(* Monthly trend-following screener (main.py): one run of main() as a      *)
(* sequence of steps over the files of out/ and out/history/, and its pure *)
(* parts (liquidity gate, correlation deduplication, ranking, history      *)
(* lookup, order diff) as operators.                                       *)
(*                                                                         *)
(* Conventions of the model                                                *)
(*   - a ticker is the sequence of its characters, so that the ".T" suffix *)
(*     test and the string order of sorted() are computed, not tabulated;  *)
(*   - a float is an integer, or one of two reserved integers, NaN and     *)
(*     NegInf, that no datum takes; floats are compared with Lt and Gt,    *)
(*     which are False as soon as one side is NaN, as in IEEE arithmetic;  *)
(*   - prices and traded values are integers in the native currency unit;  *)
(*   - a correlation is an integer number of hundredths (0.95 is 95);      *)
(*   - a momentum close[t]/close[t-W] - 1 is the exact fraction <<n, d>>   *)
(*     with n = close[t] - close[t-W] and d = close[t-W] > 0;              *)
(*   - a calendar month is the integer 12 * year + (month - 1); a date     *)
(*     string "YYYY-MM-DD" is the triple <<YYYY, MM, DD>> of its fields,   *)
(*     compared through the characters it prints as.                       *)
(***************************************************************************)
EXTENDS Integers, Sequences, FiniteSets, TLC

VARIABLES
    pc,                 \* position of main() ("idle" between runs)
    now,                \* calendar month of the processing time
    runs,               \* number of runs started so far
    universe_csv,       \* the ticker column of universe.csv
    cv_d,               \* per ticker: daily close * volume (trailing rows)
    month_last,         \* close_d.resample("ME").last(): [first, cols]
    corr_by_end,        \* ret_m.corr() of the table ending at a given month
    tickers,            \* load_universe() result
    traded_value_60d,
    liq_ok,
    close_m,            \* the monthly table main() scores: [first, cols]
    table,              \* ScreenRow per ticker at the latest finalized month
    corr,
    to_drop,
    final,
    asof,
    ranked,             \* sequence of [Ticker, rank, pick]
    picks_out,          \* DataFrame of the picks
    prev_picks,         \* DataFrame returned by load_prev_picks_from_history
    sizing,             \* [portfolio_value_native, top_n] passed to build_orders
    orders,
    out_dir,            \* files of out/ (name -> content)
    hist_dir,           \* files of out/history/ (name -> content)
    out_dir0,           \* out/ as it was when the current run started
    hist_dir0,          \* out/history/ as it was when the current run started
    prev_run,           \* what the run before the current one read and produced
    err                 \* the exception that ended the run, or "none"

vars == <<pc, now, runs, universe_csv, cv_d, month_last, corr_by_end, tickers,
          traded_value_60d, liq_ok, close_m, table, corr, to_drop, final, asof,
          ranked, picks_out, prev_picks, sizing, orders, out_dir, hist_dir,
          out_dir0, hist_dir0, prev_run, err>>

-----------------------------------------------------------------------------
(* Program constants                                                       *)

TOP_N == 3
MA_MONTHS == 10
MOM_MONTHS == 12
CORR_THRESHOLD == 95
LIQ_THRESHOLD_JPY == 50000000
LIQ_THRESHOLD_USD == 1000000
PORTFOLIO_VALUE_NATIVE == 1000000
LIQ_WINDOW == 60
MIN_UNIVERSE == 3

-----------------------------------------------------------------------------
(* Bounds of the model                                                     *)

MaxRuns == 2
MaxTicks == 1

-----------------------------------------------------------------------------
(* Values                                                                  *)

NaN == -999999999
NegInf == -1000000000

isna(x) == x = NaN
notna(x) == x # NaN

\* float comparisons: False when either side is NaN
Lt(x, y) == notna(x) /\ notna(y) /\ x < y
Gt(x, y) == notna(x) /\ notna(y) /\ x > y

\* a CSV cell of the orders table: a number, the text ALL, or an empty cell
CellInt(n) == [kind |-> "int", n |-> n]
CellAll == [kind |-> "ALL", n |-> 0]
CellBlank == [kind |-> "blank", n |-> 0]

\* Series.get(key, default) / dict lookup with a default
Get(f, k, default) == IF k \in DOMAIN f THEN f[k] ELSE default

Max2(a, b) == IF a >= b THEN a ELSE b

Range(s) == {s[i] : i \in 1..Len(s)}

-----------------------------------------------------------------------------
(* Tickers and their string order                                          *)

Code == [c \in {".", "A", "B", "C", "D", "T"} |->
            CASE c = "." -> 46 [] c = "A" -> 65 [] c = "B" -> 66
              [] c = "C" -> 67 [] c = "D" -> 68 [] c = "T" -> 84]

\* Python's str < str: the first differing character decides, a proper
\* prefix is smaller
RECURSIVE StrLess(_, _)
StrLess(s, t) ==
    IF t = <<>> THEN FALSE
    ELSE IF s = <<>> THEN TRUE
    ELSE IF Code[Head(s)] # Code[Head(t)] THEN Code[Head(s)] < Code[Head(t)]
    ELSE StrLess(Tail(s), Tail(t))

\* str.endswith(".T")
EndsWithDotT(t) ==
    /\ Len(t) >= 2
    /\ t[Len(t) - 1] = "."
    /\ t[Len(t)] = "T"

liquidity_threshold(ticker) ==
    IF EndsWithDotT(ticker) THEN LIQ_THRESHOLD_JPY ELSE LIQ_THRESHOLD_USD

\* sorted(set of str)
RECURSIVE sorted(_)
sorted(S) ==
    IF S = {} THEN <<>>
    ELSE LET m == CHOOSE x \in S : \A y \in S \ {x} : StrLess(x, y)
         IN  <<m>> \o sorted(S \ {m})

\* a DataFrame of which only the Ticker column matters
DataFrame(cols, ts) == [columns |-> cols, Ticker |-> ts]
EmptyTickerFrame == DataFrame({"Ticker"}, <<>>)

-----------------------------------------------------------------------------
(* build_orders                                                            *)

TargetPer(portfolio_value_native, top_n) ==
    ((portfolio_value_native \div top_n) \div 1000) * 1000

RefPrice(px) == IF notna(px) THEN CellInt(px) ELSE CellBlank

NoteSell == [text |-> "Sell all (manual: use your current holdings qty)", target |-> 0, qty |-> 0]
NoteMissing == [text |-> "Price missing -> set qty manually", target |-> 0, qty |-> 0]
NoteTarget(target_per, qty) == [text |-> "Target ~{target} (native) => qty={qty}", target |-> target_per, qty |-> qty]

DropOrder(t, last_prices) ==
    LET px == Get(last_prices, t, NaN)
    IN  [Ticker |-> t, action |-> "DROP", side |-> "SELL", qty |-> CellAll,
         ref_price |-> RefPrice(px), note |-> NoteSell]

\* a positive price is a datum, never the reserved NegInf
PriceUnusable(px) == isna(px) \/ px <= 0

AddQtyRoundedUp(target_per, px) ==
    IF PriceUnusable(px) THEN CellBlank
    ELSE CellInt((target_per + px - 1) \div px)

AddQty(target_per, px) ==
    IF PriceUnusable(px) THEN CellBlank ELSE CellInt(target_per \div px)

AddOrder(t, last_prices, target_per) ==
    LET px  == Get(last_prices, t, NaN)
        qty == AddQty(target_per, px)
    IN  [Ticker |-> t, action |-> "ADD", side |-> "BUY", qty |-> qty,
         ref_price |-> RefPrice(px),
         note |-> IF PriceUnusable(px)
                    THEN NoteMissing ELSE NoteTarget(target_per, qty.n)]

AddSetAllCurrent(cur_set, prev_set) == cur_set

AddSet(cur_set, prev_set) == cur_set \ prev_set
DropSet(cur_set, prev_set) == prev_set \ cur_set

\* cur_picks is picks_out, which always carries its Ticker column (line 281);
\* the rows are the DROP rows, then the ADD rows, each group sorted by ticker
build_orders(cur_picks, prev_picks_arg, last_prices, portfolio_value_native, top_n) ==
    LET prev     == IF "Ticker" \in prev_picks_arg.columns
                      THEN prev_picks_arg ELSE EmptyTickerFrame
        cur_set  == Range(cur_picks.Ticker)
        prev_set == Range(prev.Ticker)
        add      == sorted(AddSet(cur_set, prev_set))
        drop     == sorted(DropSet(cur_set, prev_set))
        target_per == TargetPer(portfolio_value_native, top_n)
    IN  [i \in 1..Len(drop) |-> DropOrder(drop[i], last_prices)]
        \o [i \in 1..Len(add) |-> AddOrder(add[i], last_prices, target_per)]

-----------------------------------------------------------------------------
(* load_universe                                                           *)

\* keeps the first occurrence of every ticker, in file order
RECURSIVE load_universe(_)
load_universe(col) ==
    IF col = <<>> THEN <<>>
    ELSE LET init == load_universe(SubSeq(col, 1, Len(col) - 1))
             t    == col[Len(col)]
         IN  IF t \in Range(init) THEN init ELSE Append(init, t)

-----------------------------------------------------------------------------
(* Liquidity filter                                                        *)

RECURSIVE SumDiv(_, _)
SumDiv(s, w) == IF s = <<>> THEN 0 ELSE (Head(s) \div w) + SumDiv(Tail(s), w)

RECURSIVE SumMod(_, _)
SumMod(s, w) == IF s = <<>> THEN 0 ELSE (Head(s) % w) + SumMod(Tail(s), w)

\* s.rolling(w).mean().iloc[-1]: the mean of the last w rows, NaN unless all
\* w of them exist and are not NaN.  The data of the model have an integral
\* window mean; it is summed as quotients and remainders to stay in range.
RollingMeanLast(s, w) ==
    IF Len(s) < w THEN NaN
    ELSE LET win == SubSeq(s, Len(s) - w + 1, Len(s))
         IN  IF \E i \in 1..w : isna(win[i]) THEN NaN
             ELSE SumDiv(win, w) + (SumMod(win, w) \div w)

TradedValue60d(cv) == [t \in DOMAIN cv |-> RollingMeanLast(cv[t], LIQ_WINDOW)]

LiqPassStrict(val, thr) == notna(val) /\ val > thr

LiqPass(val, thr) == notna(val) /\ val >= thr

LiqOk(tv) ==
    [t \in DOMAIN tv |-> LiqPass(Get(tv, t, NaN), liquidity_threshold(t))]

-----------------------------------------------------------------------------
(* Monthly aggregator                                                      *)

\* a monthly table: the month of its first row and one column per ticker;
\* row i is labelled with the month first + i - 1
NRows(m) == IF DOMAIN m.cols = {} THEN 0
            ELSE Len(m.cols[CHOOSE t \in DOMAIN m.cols : TRUE])

LastLabel(m) == m.first + NRows(m) - 1

DropLastRow(m) ==
    [first |-> m.first,
     cols  |-> [t \in DOMAIN m.cols |-> SubSeq(m.cols[t], 1, Len(m.cols[t]) - 1)]]

FinalizedKeepsOpenMonth(m, now_month) == m

\* the latest row is dropped when its month is the month of utcnow()
Finalized(m, now_month) ==
    IF LastLabel(m) = now_month THEN DropLastRow(m) ELSE m

EnoughHistory(m) == NRows(m) >= Max2(MA_MONTHS, MOM_MONTHS) + 2

IsLeap(y) == (y % 4 = 0 /\ y % 100 # 0) \/ y % 400 = 0

DaysInMonth(y, m) ==
    IF m = 2 THEN (IF IsLeap(y) THEN 29 ELSE 28)
    ELSE IF m \in {4, 6, 9, 11} THEN 30 ELSE 31

\* the "ME" label of a month, formatted with strftime("%Y-%m-%d")
Asof(month) ==
    LET y == month \div 12
        m == (month % 12) + 1
    IN  <<y, m, DaysInMonth(y, m)>>

\* the characters of n printed in a fixed width, as character codes
RECURSIVE Digits(_, _)
Digits(n, width) ==
    IF width = 0 THEN <<>>
    ELSE Append(Digits(n \div 10, width - 1), 48 + (n % 10))

\* the characters of "YYYY-MM-DD"
DateStr(d) == Digits(d[1], 4) \o <<45>> \o Digits(d[2], 2) \o <<45>> \o Digits(d[3], 2)

RECURSIVE CodesLess(_, _)
CodesLess(s, t) ==
    IF t = <<>> THEN FALSE
    ELSE IF s = <<>> THEN TRUE
    ELSE IF Head(s) # Head(t) THEN Head(s) < Head(t)
    ELSE CodesLess(Tail(s), Tail(t))

\* str < str on two "YYYY-MM-DD" strings
DateStrLess(d, e) == CodesLess(DateStr(d), DateStr(e))

-----------------------------------------------------------------------------
(* Trend / momentum scorer, at the latest row of the monthly table         *)

FracNaN == <<NaN, 1>>
FracNegInf == <<NegInf, 1>>
isnaF(f) == f[1] = NaN

\* x > y on two fractions with positive denominators, False on NaN
FracGt(x, y) ==
    /\ ~isnaF(x) /\ ~isnaF(y)
    /\ x[1] # NegInf
    /\ (y[1] = NegInf \/ x[1] * y[2] > y[1] * x[2])

RECURSIVE SumSeq(_)
SumSeq(s) == IF s = <<>> THEN 0 ELSE Head(s) + SumSeq(Tail(s))

CloseLatest(col) == col[Len(col)]

\* close_m.rolling(MA_MONTHS).mean() at the latest row, as <<sum, MA_MONTHS>>
MaLatest(col) ==
    IF Len(col) < MA_MONTHS THEN FracNaN
    ELSE LET win == SubSeq(col, Len(col) - MA_MONTHS + 1, Len(col))
         IN  IF \E i \in 1..MA_MONTHS : isna(win[i]) THEN FracNaN
             ELSE <<SumSeq(win), MA_MONTHS>>

\* close_m / close_m.shift(MOM_MONTHS) - 1 at the latest row
MomLatest(col) ==
    IF Len(col) <= MOM_MONTHS THEN FracNaN
    ELSE LET c == col[Len(col)]
             b == col[Len(col) - MOM_MONTHS]
         IN  IF isna(c) \/ isna(b) THEN FracNaN ELSE <<c - b, b>>

\* close_m > ma at the latest row
TrendLatest(col) ==
    LET c  == CloseLatest(col)
        ma == MaLatest(col)
    IN  notna(c) /\ ~isnaF(ma) /\ c * ma[2] > ma[1]

\* np.where(trend_ok, mom, -inf)
Score(trend, mom) == IF trend THEN mom ELSE FracNegInf

-----------------------------------------------------------------------------
(* Correlation deduplicator                                                *)

CorrHigh(c) == notna(c) /\ c >= CORR_THRESHOLD

DropOfHigher(a, b, tv) ==
    IF Gt(Get(tv, a, NegInf), Get(tv, b, NegInf)) THEN a ELSE b

\* which member of a pair at or above the threshold is marked
DropOf(a, b, tv) ==
    IF Lt(Get(tv, a, NegInf), Get(tv, b, NegInf)) THEN a ELSE b


\* the inner loop stopping one column short
ToDropSkipLast(cols, c, tv) ==
    {DropOf(cols[i], cols[j], tv) :
        <<i, j>> \in {p \in (1..Len(cols)) \X (1..(Len(cols) - 1)) :
                        p[1] < p[2] /\ CorrHigh(c[cols[p[1]]][cols[p[2]]])}}

\* the double loop over the columns of the correlation matrix
ToDrop(cols, c, tv) ==
    {DropOf(cols[i], cols[j], tv) :
        <<i, j>> \in {p \in (1..Len(cols)) \X (1..Len(cols)) :
                        p[1] < p[2] /\ CorrHigh(c[cols[p[1]]][cols[p[2]]])}}

-----------------------------------------------------------------------------
(* Ranker                                                                  *)

InFinal(t, liq, dropped) == Get(liq, t, FALSE) /\ t \notin dropped

FinalUniverse(ts, liq, dropped) ==
    SelectSeq(ts, LAMBDA t : InFinal(t, liq, dropped))

ScreenRow(t, m, tv, liq, dropped, fin) ==
    LET has == t \in DOMAIN m.cols
        col == IF has THEN m.cols[t] ELSE <<NaN>>
        tr  == has /\ TrendLatest(col)
        mo  == IF has THEN MomLatest(col) ELSE FracNaN
    IN  [close    |-> CloseLatest(col),
         ma       |-> IF has THEN MaLatest(col) ELSE FracNaN,
         mom      |-> mo,
         trend_ok |-> tr,
         score    |-> Score(tr, mo),
         avg_traded_value_60d_native |-> Get(tv, t, NaN),
         liq_ok   |-> Get(liq, t, FALSE),
         dup_drop |-> t \in dropped,
         in_final |-> t \in Range(fin)]

Table(ts, m, tv, liq, dropped, fin) ==
    [t \in Range(ts) |-> ScreenRow(t, m, tv, liq, dropped, fin)]

\* the second sort key taken before the first
SortsBeforeMomFirst(ra, rb) ==
    \/ ~isnaF(ra.mom) /\ isnaF(rb.mom)
    \/ FracGt(ra.mom, rb.mom)
    \/ /\ ~FracGt(rb.mom, ra.mom) /\ isnaF(ra.mom) = isnaF(rb.mom)
       /\ ra.trend_ok /\ ~rb.trend_ok

\* sort_values(["trend_ok", "mom"], ascending=[False, False]): row a sorts
\* strictly before row b; a NaN momentum sorts last within its trend group
SortsBefore(ra, rb) ==
    \/ ra.trend_ok /\ ~rb.trend_ok
    \/ /\ ra.trend_ok = rb.trend_ok
       /\ \/ ~isnaF(ra.mom) /\ isnaF(rb.mom)
          \/ FracGt(ra.mom, rb.mom)

\* the position at which the stable sort places row t among the rows sorted
\* so far: after every row that t does not strictly precede
RECURSIVE InsertStable(_, _, _)
InsertStable(s, t, tab) ==
    IF s = <<>> THEN <<t>>
    ELSE IF SortsBefore(tab[t], tab[s[Len(s)]])
           THEN Append(InsertStable(SubSeq(s, 1, Len(s) - 1), t, tab), s[Len(s)])
           ELSE Append(s, t)

RECURSIVE SortValues(_, _)
SortValues(fin, tab) ==
    IF fin = <<>> THEN <<>>
    ELSE InsertStable(SortValues(SubSeq(fin, 1, Len(fin) - 1), tab),
                      fin[Len(fin)], tab)

IsPick(rank) == rank <= TOP_N

Ranked(fin, tab) ==
    LET order == SortValues(fin, tab)
    IN  [i \in 1..Len(order) |->
            [Ticker |-> order[i], rank |-> i, pick |-> IsPick(i)]]

PicksOut(rk) ==
    LET sel == SelectSeq(rk, LAMBDA r : r.pick)
    IN  DataFrame({"Ticker", "rank", "pick"}, [i \in 1..Len(sel) |-> sel[i].Ticker])

-----------------------------------------------------------------------------
(* Files                                                                   *)

\* a file of out/history/: <prefix>_<tag>.<ext>
HistName(prefix, tag, ext) == [prefix |-> prefix, tag |-> tag, ext |-> ext]

WriteFile(dir, name, content) ==
    [f \in DOMAIN dir \cup {name} |-> IF f = name THEN content ELSE dir[f]]

RECURSIVE WriteFiles(_, _)
WriteFiles(dir, ws) ==
    IF ws = <<>> THEN dir
    ELSE WriteFiles(WriteFile(dir, Head(ws)[1], Head(ws)[2]), Tail(ws))

\* hist_dir.glob("picks_*.csv")
GlobPicks(dir) == {f \in DOMAIN dir : f.prefix = "picks" /\ f.ext = "csv"}

\* re.match(r"picks_(\d{4}-\d{2}-\d{2})$", stem): the tag is three digit
\* groups of widths 4, 2 and 2
IsDateTag(tag) ==
    /\ Len(tag) = 3
    /\ tag[1] \in 0..9999 /\ tag[2] \in 0..99 /\ tag[3] \in 0..99

extract_date(f) == IF IsDateTag(f.tag) THEN f.tag ELSE <<>>

IsPrevOrSame(d, cur_asof) == ~DateStrLess(cur_asof, d)

IsPrev(d, cur_asof) == DateStrLess(d, cur_asof)

\* the files dated before cur_asof, and the last of them in date order
PrevFiles(dir, cur_asof) ==
    {f \in GlobPicks(dir) :
        extract_date(f) # <<>> /\ IsPrev(extract_date(f), cur_asof)}

LastByDate(fs) ==
    CHOOSE f \in fs : \A g \in fs \ {f} : DateStrLess(extract_date(g), extract_date(f))

\* [raises, df]: the ValueError of a snapshot without a Ticker column
load_prev_picks_from_history(dir, cur_asof) ==
    LET prev_files == PrevFiles(dir, cur_asof)
    IN  IF prev_files = {} THEN [raises |-> FALSE, df |-> EmptyTickerFrame]
        ELSE LET df == dir[LastByDate(prev_files)]
             IN  IF "Ticker" \notin df.columns
                   THEN [raises |-> TRUE, df |-> EmptyTickerFrame]
                   ELSE [raises |-> FALSE, df |-> df]

-----------------------------------------------------------------------------
(* main(): one run, step by step                                           *)

NoTable == [first |-> 0, cols |-> <<>>]

\* the local variables of main() before it has assigned them
LocalsUnset ==
    /\ universe_csv = <<>> /\ tickers = <<>>
    /\ cv_d = <<>> /\ month_last = NoTable /\ corr_by_end = <<>>
    /\ traded_value_60d = <<>> /\ liq_ok = <<>>
    /\ close_m = NoTable /\ table = <<>> /\ corr = <<>>
    /\ to_drop = {} /\ final = <<>> /\ asof = <<>>
    /\ ranked = <<>> /\ picks_out = EmptyTickerFrame
    /\ prev_picks = EmptyTickerFrame /\ orders = <<>>

ResetLocals ==
    /\ cv_d' = <<>> /\ month_last' = NoTable /\ corr_by_end' = <<>>
    /\ traded_value_60d' = <<>> /\ liq_ok' = <<>>
    /\ close_m' = NoTable /\ table' = <<>> /\ corr' = <<>>
    /\ to_drop' = {} /\ final' = <<>> /\ asof' = <<>>
    /\ ranked' = <<>> /\ picks_out' = EmptyTickerFrame
    /\ prev_picks' = EmptyTickerFrame /\ orders' = <<>>

Raise(e) == pc' = "failed" /\ err' = e

\* a run as the next one finds it: how it ended, what it read, what it produced
ThisRun ==
    [pc |-> pc, universe_csv |-> universe_csv, cv_d |-> cv_d,
     month_last |-> month_last, corr_by_end |-> corr_by_end, asof |-> asof,
     picks_out |-> picks_out, orders |-> orders]

NoRun ==
    [pc |-> "idle", universe_csv |-> <<>>, cv_d |-> <<>>,
     month_last |-> NoTable, corr_by_end |-> <<>>, asof |-> <<>>,
     picks_out |-> EmptyTickerFrame, orders |-> <<>>]

\* lines 203-205: a new process starts, reads universe.csv and checks it
LoadUniverse(csv) ==
    /\ pc \in {"idle", "done", "failed"}
    /\ runs < MaxRuns
    /\ Len(load_universe(csv)) >= MIN_UNIVERSE
    /\ runs' = runs + 1
    /\ universe_csv' = csv
    /\ tickers' = load_universe(csv)
    /\ out_dir0' = out_dir /\ hist_dir0' = hist_dir
    /\ prev_run' = ThisRun
    /\ ResetLocals
    /\ pc' = "loaded" /\ err' = "none"
    /\ UNCHANGED <<now, sizing, out_dir, hist_dir>>

FailUniverse(csv) ==
    /\ pc \in {"idle", "done", "failed"}
    /\ runs < MaxRuns
    /\ Len(load_universe(csv)) < MIN_UNIVERSE
    /\ runs' = runs + 1
    /\ universe_csv' = csv
    /\ tickers' = load_universe(csv)
    /\ out_dir0' = out_dir /\ hist_dir0' = hist_dir
    /\ prev_run' = ThisRun
    /\ ResetLocals
    /\ Raise("ValueError: universe must contain at least 3 tickers")
    /\ UNCHANGED <<now, sizing, out_dir, hist_dir>>

\* lines 207-209: the downloaded tables, one column per requested ticker
Download(cv, ml, cbe) ==
    /\ pc = "loaded"
    /\ cv_d' = cv /\ month_last' = ml /\ corr_by_end' = cbe
    /\ pc' = "downloaded"
    /\ UNCHANGED <<now, runs, universe_csv, tickers, traded_value_60d, liq_ok,
                   close_m, table, corr, to_drop, final, asof, ranked, picks_out,
                   prev_picks, sizing, orders, out_dir, hist_dir, out_dir0,
                   hist_dir0, prev_run, err>>

\* lines 212-219
Liquidity ==
    /\ pc = "downloaded"
    /\ traded_value_60d' = TradedValue60d(cv_d)
    /\ liq_ok' = LiqOk(TradedValue60d(cv_d))
    /\ pc' = "liquidity"
    /\ UNCHANGED <<now, runs, universe_csv, cv_d, month_last, corr_by_end, tickers,
                   close_m, table, corr, to_drop, final, asof, ranked, picks_out,
                   prev_picks, sizing, orders, out_dir, hist_dir, out_dir0,
                   hist_dir0, prev_run, err>>

\* lines 222-231
Monthly ==
    /\ pc = "liquidity"
    /\ close_m' = Finalized(month_last, now)
    /\ EnoughHistory(Finalized(month_last, now))
    /\ pc' = "monthly"
    /\ UNCHANGED <<now, runs, universe_csv, cv_d, month_last, corr_by_end, tickers,
                   traded_value_60d, liq_ok, table, corr, to_drop, final, asof,
                   ranked, picks_out, prev_picks, sizing, orders, out_dir,
                   hist_dir, out_dir0, hist_dir0, prev_run, err>>

FailHistory ==
    /\ pc = "liquidity"
    /\ close_m' = Finalized(month_last, now)
    /\ ~EnoughHistory(Finalized(month_last, now))
    /\ Raise("ValueError: not enough monthly history for MA/Momentum")
    /\ UNCHANGED <<now, runs, universe_csv, cv_d, month_last, corr_by_end, tickers,
                   traded_value_60d, liq_ok, table, corr, to_drop, final, asof,
                   ranked, picks_out, prev_picks, sizing, orders, out_dir,
                   hist_dir, out_dir0, hist_dir0, prev_run>>

\* lines 238-249: the correlation of the returns of the table being scored
Dedup ==
    /\ pc = "monthly"
    /\ corr' = corr_by_end[LastLabel(close_m)]
    /\ to_drop' = ToDrop(tickers, corr_by_end[LastLabel(close_m)], traded_value_60d)
    /\ pc' = "dedup"
    /\ UNCHANGED <<now, runs, universe_csv, cv_d, month_last, corr_by_end, tickers,
                   traded_value_60d, liq_ok, close_m, table, final, asof, ranked,
                   picks_out, prev_picks, sizing, orders, out_dir, hist_dir,
                   out_dir0, hist_dir0, prev_run, err>>

\* lines 251-256
Final ==
    /\ pc = "dedup"
    /\ final' = FinalUniverse(tickers, liq_ok, to_drop)
    /\ Len(FinalUniverse(tickers, liq_ok, to_drop)) # 0
    /\ asof' = Asof(LastLabel(close_m))
    /\ pc' = "final"
    /\ UNCHANGED <<now, runs, universe_csv, cv_d, month_last, corr_by_end, tickers,
                   traded_value_60d, liq_ok, close_m, table, corr, to_drop, ranked,
                   picks_out, prev_picks, sizing, orders, out_dir, hist_dir,
                   out_dir0, hist_dir0, prev_run, err>>

FailEmpty ==
    /\ pc = "dedup"
    /\ final' = FinalUniverse(tickers, liq_ok, to_drop)
    /\ Len(FinalUniverse(tickers, liq_ok, to_drop)) = 0
    /\ Raise("RuntimeError: final universe became empty")
    /\ UNCHANGED <<now, runs, universe_csv, cv_d, month_last, corr_by_end, tickers,
                   traded_value_60d, liq_ok, close_m, table, corr, to_drop, asof,
                   ranked, picks_out, prev_picks, sizing, orders, out_dir,
                   hist_dir, out_dir0, hist_dir0, prev_run>>

\* lines 259-260
WriteAsof ==
    /\ pc = "final"
    /\ out_dir' = WriteFile(out_dir, "asof_latest.txt", asof)
    /\ hist_dir' = WriteFile(hist_dir, HistName("asof", asof, "txt"), asof)
    /\ pc' = "asof_written"
    /\ UNCHANGED <<now, runs, universe_csv, cv_d, month_last, corr_by_end, tickers,
                   traded_value_60d, liq_ok, close_m, table, corr, to_drop, final,
                   asof, ranked, picks_out, prev_picks, sizing, orders, out_dir0,
                   hist_dir0, prev_run, err>>

\* lines 262-281
Rank ==
    /\ pc = "asof_written"
    /\ LET tab == Table(tickers, close_m, traded_value_60d, liq_ok, to_drop, final)
       IN  /\ table' = tab
           /\ ranked' = Ranked(final, tab)
           /\ picks_out' = PicksOut(Ranked(final, tab))
    /\ pc' = "ranked"
    /\ UNCHANGED <<now, runs, universe_csv, cv_d, month_last, corr_by_end, tickers,
                   traded_value_60d, liq_ok, close_m, corr, to_drop, final, asof,
                   prev_picks, sizing, orders, out_dir, hist_dir, out_dir0,
                   hist_dir0, prev_run, err>>

\* the rows of ranking_*.csv: the screen columns of the final universe with
\* rank and pick
RankedOut(rk, tab) ==
    [i \in 1..Len(rk) |->
        [Ticker |-> rk[i].Ticker, row |-> tab[rk[i].Ticker],
         rank |-> rk[i].rank, pick |-> rk[i].pick]]

Meta(d, when, n_universe, n_final) ==
    [asof_month_end |-> d, generated_at_utc |-> when, top_n |-> TOP_N,
     ma_months |-> MA_MONTHS, mom_months |-> MOM_MONTHS,
     corr_threshold |-> CORR_THRESHOLD,
     liq_threshold_jpy |-> LIQ_THRESHOLD_JPY,
     liq_threshold_usd |-> LIQ_THRESHOLD_USD,
     universe_count |-> n_universe, final_universe_count |-> n_final]

Status(d, when, n_universe, fin, picks) ==
    [asof_month_end |-> d, generated_at_utc |-> when, top_n |-> TOP_N,
     ma_months |-> MA_MONTHS, mom_months |-> MOM_MONTHS,
     corr_threshold |-> CORR_THRESHOLD,
     liq_threshold_jpy |-> LIQ_THRESHOLD_JPY,
     liq_threshold_usd |-> LIQ_THRESHOLD_USD,
     universe_count |-> n_universe, final_universe |-> fin, picks |-> picks]

\* datetime.now(timezone.utc), printed to the second: the calendar month it
\* falls in and, within the month, the run that reads it (a run lasts longer
\* than a second, so no two runs read the same value)
utcnow == <<now, runs>>

\* lines 284-331
WriteRanking ==
    /\ pc = "ranked"
    /\ LET ranked_out == RankedOut(ranked, table)
           meta   == Meta(asof, utcnow, Len(tickers), Len(final))
           status == Status(asof, utcnow, Len(tickers), final, picks_out.Ticker)
       IN  /\ out_dir' = WriteFiles(out_dir,
                            << <<"ranking_latest.csv", ranked_out>>,
                               <<"picks_latest.csv", picks_out>>,
                               <<"meta_latest.csv", meta>>,
                               <<"status_latest.json", status>> >>)
           /\ hist_dir' = WriteFiles(hist_dir,
                            << <<HistName("ranking", asof, "csv"), ranked_out>>,
                               <<HistName("picks", asof, "csv"), picks_out>>,
                               <<HistName("meta", asof, "csv"), meta>>,
                               <<HistName("status", asof, "json"), status>> >>)
    /\ pc' = "ranking_written"
    /\ UNCHANGED <<now, runs, universe_csv, cv_d, month_last, corr_by_end, tickers,
                   traded_value_60d, liq_ok, close_m, table, corr, to_drop, final,
                   asof, ranked, picks_out, prev_picks, sizing, orders, out_dir0,
                   hist_dir0, prev_run, err>>

\* line 334
LoadPrev ==
    /\ pc = "ranking_written"
    /\ ~load_prev_picks_from_history(hist_dir, asof).raises
    /\ prev_picks' = load_prev_picks_from_history(hist_dir, asof).df
    /\ pc' = "prev_loaded"
    /\ UNCHANGED <<now, runs, universe_csv, cv_d, month_last, corr_by_end, tickers,
                   traded_value_60d, liq_ok, close_m, table, corr, to_drop, final,
                   asof, ranked, picks_out, sizing, orders, out_dir, hist_dir,
                   out_dir0, hist_dir0, prev_run, err>>

FailPrev ==
    /\ pc = "ranking_written"
    /\ load_prev_picks_from_history(hist_dir, asof).raises
    /\ Raise("ValueError: previous picks must have 'Ticker' column")
    /\ UNCHANGED <<now, runs, universe_csv, cv_d, month_last, corr_by_end, tickers,
                   traded_value_60d, liq_ok, close_m, table, corr, to_drop, final,
                   asof, ranked, picks_out, prev_picks, sizing, orders, out_dir,
                   hist_dir, out_dir0, hist_dir0, prev_run>>

\* table["close"]
LastPrices(tab) == [t \in DOMAIN tab |-> tab[t].close]

\* lines 335-342
BuildOrders ==
    /\ pc = "prev_loaded"
    /\ orders' = build_orders(picks_out, prev_picks, LastPrices(table),
                              sizing.portfolio_value_native, sizing.top_n)
    /\ pc' = "orders_built"
    /\ UNCHANGED <<now, runs, universe_csv, cv_d, month_last, corr_by_end, tickers,
                   traded_value_60d, liq_ok, close_m, table, corr, to_drop, final,
                   asof, ranked, picks_out, prev_picks, sizing, out_dir, hist_dir,
                   out_dir0, hist_dir0, prev_run, err>>

\* lines 344-347
WriteOrders ==
    /\ pc = "orders_built"
    /\ out_dir' = WriteFile(out_dir, "orders_latest.csv", orders)
    /\ hist_dir' = WriteFile(hist_dir, HistName("orders", asof, "csv"), orders)
    /\ pc' = "orders_written"
    /\ UNCHANGED <<now, runs, universe_csv, cv_d, month_last, corr_by_end, tickers,
                   traded_value_60d, liq_ok, close_m, table, corr, to_drop, final,
                   asof, ranked, picks_out, prev_picks, sizing, orders, out_dir0,
                   hist_dir0, prev_run, err>>

\* the rows of screen_all_*.csv: every ticker of the table, with rank and
\* pick where it is ranked (0 and FALSE stand for the empty cells)
ScreenAll(tab, rk) ==
    [t \in DOMAIN tab |->
        LET at == {i \in 1..Len(rk) : rk[i].Ticker = t}
        IN  [row  |-> tab[t],
             rank |-> IF at = {} THEN 0 ELSE rk[CHOOSE i \in at : TRUE].rank,
             pick |-> at # {} /\ rk[CHOOSE i \in at : TRUE].pick,
             fail_liq   |-> ~tab[t].liq_ok,
             fail_dup   |-> tab[t].dup_drop,
             fail_trend |-> ~tab[t].trend_ok]]

\* lines 350-366
WriteScreenAll ==
    /\ pc = "orders_written"
    /\ out_dir' = WriteFile(out_dir, "screen_all_latest.csv", ScreenAll(table, ranked))
    /\ hist_dir' = WriteFile(hist_dir, HistName("screen_all", asof, "csv"),
                             ScreenAll(table, ranked))
    /\ pc' = "done"
    /\ UNCHANGED <<now, runs, universe_csv, cv_d, month_last, corr_by_end, tickers,
                   traded_value_60d, liq_ok, close_m, table, corr, to_drop, final,
                   asof, ranked, picks_out, prev_picks, sizing, orders, out_dir0,
                   hist_dir0, prev_run, err>>

-----------------------------------------------------------------------------
(* The environment: universe files, market data, the clock                 *)

A == <<"A">>
B == <<"B">>
C == <<"C">>
D == <<"D">>
CT == <<"C", ".", "T">>

\* the processing time of the first run: March 2024
StartMonth == 2024 * 12 + 2

Tick ==
    /\ pc \in {"idle", "done", "failed"}
    /\ now < StartMonth + MaxTicks
    /\ now' = now + 1
    /\ UNCHANGED <<pc, runs, universe_csv, cv_d, month_last, corr_by_end, tickers,
                   traded_value_60d, liq_ok, close_m, table, corr, to_drop, final,
                   asof, ranked, picks_out, prev_picks, sizing, orders, out_dir,
                   hist_dir, out_dir0, hist_dir0, prev_run, err>>

UniverseFiles == {<<A, B>>, <<A, B, C, D>>, <<A, CT, A, B>>}

PathOrigin == StartMonth - 24

\* the month-end close of a price path in a calendar month
Path(kind, m) ==
    CASE kind = "up"     -> 100 + 2 * (m - PathOrigin)
      [] kind = "strong" -> 100 + 5 * (m - PathOrigin)
      [] kind = "down"   -> 400 - 3 * (m - PathOrigin)
      [] kind = "zig"    -> 100 + 10 * (m % 2)
      [] kind = "new"    -> IF m < StartMonth - 11 THEN NaN
                            ELSE 50 + (m - PathOrigin)

MonthTable(paths, first, last) ==
    [first |-> first,
     cols  |-> [t \in DOMAIN paths |->
                  [i \in 1..(last - first + 1) |-> Path(paths[t], first + i - 1)]]]

\* the daily close * volume of a ticker whose market threshold is thr
Daily(kind, thr) ==
    [i \in 1..(LIQ_WINDOW + 1) |->
        CASE kind = "deep"   -> thr + 1200
          [] kind = "liquid" -> thr + 600
          [] kind = "edge"   -> IF i % 2 = 0 THEN thr - 60 ELSE thr + 60
          [] kind = "thin"   -> thr - 60
          [] kind = "fresh"  -> IF i <= 5 THEN NaN ELSE thr + 600]

CorrMatrix(ts, high, undef) ==
    [a \in ts |-> [b \in ts |->
        IF a = b THEN 100
        ELSE IF {a, b} \in undef THEN NaN
        ELSE IF {a, b} \in high THEN 97 ELSE 50]]

MinRows == Max2(MA_MONTHS, MOM_MONTHS) + 2

DailyPlans ==
    [varied |-> [t \in {A, B, C, D, CT} |->
                    CASE t = A -> "deep" [] t = B -> "liquid" [] t = C -> "edge"
                      [] t = D -> "thin" [] t = CT -> "liquid"],
     thin   |-> [t \in {A, B, C, D, CT} |-> "thin"],
     fresh  |-> [t \in {A, B, C, D, CT} |->
                    CASE t = A -> "fresh" [] t = B -> "deep" [] t = C -> "liquid"
                      [] t = D -> "liquid" [] t = CT -> "thin"]]

PathPlans ==
    [one |-> [t \in {A, B, C, D, CT} |->
                 CASE t = A -> "up" [] t = B -> "zig" [] t = C -> "down"
                   [] t = D -> "strong" [] t = CT -> "new"],
     two |-> [t \in {A, B, C, D, CT} |->
                 CASE t = A -> "down" [] t = B -> "strong" [] t = C -> "new"
                   [] t = D -> "zig" [] t = CT -> "up"]]

Scenario(daily, paths, high, rows, open) ==
    [daily |-> daily, paths |-> paths, high |-> high, rows |-> rows, open |-> open]

\* what the price provider can return to a run
Scenarios ==
    {Scenario("varied", "one", {}, MinRows, TRUE),
     Scenario("varied", "one", {{A, B}}, MinRows, TRUE),
     Scenario("varied", "two", {}, MinRows + 1, FALSE),
     Scenario("fresh", "two", {{A, B}}, MinRows, TRUE),
     Scenario("fresh", "one", {{B, C}, {B, CT}}, MinRows, FALSE),
     Scenario("thin", "one", {}, MinRows, TRUE),
     Scenario("varied", "one", {}, MinRows - 1, TRUE)}

ScenarioCv(sc, ts) ==
    [t \in Range(ts) |-> Daily(DailyPlans[sc.daily][t], liquidity_threshold(t))]

\* sc.rows finalized months, and the row of the open month when sc.open
ScenarioMonthly(sc, ts, now_month) ==
    MonthTable([t \in Range(ts) |-> PathPlans[sc.paths][t]],
               now_month - sc.rows,
               IF sc.open THEN now_month ELSE now_month - 1)

\* the correlation of the returns up to the last closed month, and up to
\* the open month
ScenarioCorr(sc, ts, now_month) ==
    [e \in {now_month - 1, now_month} |->
        IF e = now_month - 1 THEN CorrMatrix(Range(ts), sc.high, {})
        ELSE CorrMatrix(Range(ts), {{A, B}, {B, C}} \ sc.high, {{A, D}})]

InitHistories ==
    {<<>>,
     WriteFiles(<<>>,
        << <<HistName("picks", <<2023, 12, 31>>, "csv"),
             DataFrame({"Ticker", "rank", "pick"}, <<A, B, C>>)>>,
           <<HistName("picks", <<2024, 1>>, "csv"),
             DataFrame({"Ticker", "rank", "pick"}, <<D>>)>> >>),
     WriteFiles(<<>>,
        << <<HistName("picks", <<2023, 12, 31>>, "csv"),
             DataFrame({"Symbol"}, <<>>)>> >>)}

MainSizing ==
    [portfolio_value_native |-> PORTFOLIO_VALUE_NATIVE, top_n |-> TOP_N]

-----------------------------------------------------------------------------
(* The program: runs of main() over the files they leave                   *)

Init ==
    /\ pc = "idle" /\ now = StartMonth /\ runs = 0
    /\ LocalsUnset
    /\ sizing = MainSizing
    /\ out_dir = <<>> /\ out_dir0 = <<>>
    /\ hist_dir \in InitHistories /\ hist_dir0 = hist_dir
    /\ prev_run = NoRun
    /\ err = "none"

Next ==
    \/ Tick
    \/ \E csv \in UniverseFiles : LoadUniverse(csv)
    \/ \E csv \in UniverseFiles : FailUniverse(csv)
    \/ \E sc \in Scenarios :
          Download(ScenarioCv(sc, tickers), ScenarioMonthly(sc, tickers, now),
                   ScenarioCorr(sc, tickers, now))
    \/ Liquidity
    \/ Monthly
    \/ FailHistory
    \/ Dedup
    \/ Final
    \/ FailEmpty
    \/ WriteAsof
    \/ Rank
    \/ WriteRanking
    \/ LoadPrev
    \/ FailPrev
    \/ BuildOrders
    \/ WriteOrders
    \/ WriteScreenAll

Spec == Init /\ [][Next]_vars

-----------------------------------------------------------------------------
(* build_orders on its own: the call of line 336 over bounded arguments    *)

SetToSeq(S) == sorted(S)

\* a screen row of which only the reference price is set
PriceRow(px) ==
    [close |-> px, ma |-> FracNaN, mom |-> FracNaN, trend_ok |-> FALSE,
     score |-> FracNegInf, avg_traded_value_60d_native |-> NaN,
     liq_ok |-> TRUE, dup_drop |-> FALSE, in_final |-> TRUE]

PriceVals == {NaN, -5, 0, 7, 1000, 333001}

SizingVals ==
    {MainSizing,
     [portfolio_value_native |-> 10500, top_n |-> TOP_N],
     [portfolio_value_native |-> 2999, top_n |-> TOP_N]}

PrevFrames ==
    {DataFrame({"Ticker", "rank", "pick"}, SetToSeq(S)) : S \in SUBSET {A, B, C, D}}
        \cup {DataFrame({"Symbol"}, <<>>)}

InitOrders ==
    /\ pc = "prev_loaded" /\ now = StartMonth /\ runs = 1
    /\ universe_csv = <<A, B, C>> /\ tickers = <<A, B, C>>
    /\ cv_d = <<>> /\ month_last = NoTable /\ corr_by_end = <<>>
    /\ traded_value_60d = <<>> /\ liq_ok = <<>>
    /\ close_m = NoTable /\ corr = <<>> /\ to_drop = {}
    /\ final = <<A, B, C>> /\ asof = Asof(StartMonth - 1) /\ ranked = <<>>
    /\ table \in [{A, B, C} -> {PriceRow(px) : px \in PriceVals}]
    /\ picks_out \in {DataFrame({"Ticker", "rank", "pick"}, SetToSeq(S)) :
                        S \in SUBSET {A, B, C}}
    /\ prev_picks \in PrevFrames
    /\ sizing \in SizingVals
    /\ orders = <<>>
    /\ out_dir = <<>> /\ out_dir0 = <<>> /\ hist_dir = <<>> /\ hist_dir0 = <<>>
    /\ prev_run = NoRun
    /\ err = "none"

NextOrders == BuildOrders

SpecOrders == InitOrders /\ [][NextOrders]_vars

\* the rows of the order list with a given action, and their tickers
OrderRows(action) == {i \in 1..Len(orders) : orders[i].action = action}
OrderTickers(action) == {orders[i].Ticker : i \in OrderRows(action)}

CurSet == Range(picks_out.Ticker)
PrevSet == IF "Ticker" \in prev_picks.columns THEN Range(prev_picks.Ticker) ELSE {}

\* C1: the ADD rows are exactly the symbols of current minus previous, the
\* DROP rows exactly those of previous minus current, one row per symbol;
\* no symbol has both, a symbol in both sets has no row, and equal sets
\* give an empty order list.
C1_OrderDiff ==
    pc = "orders_built" =>
        /\ OrderTickers("ADD") = CurSet \ PrevSet
        /\ OrderTickers("DROP") = PrevSet \ CurSet
        /\ OrderRows("ADD") \cup OrderRows("DROP") = 1..Len(orders)
        /\ Len(orders) = Cardinality(CurSet \ PrevSet) + Cardinality(PrevSet \ CurSet)
        /\ OrderTickers("ADD") \cap OrderTickers("DROP") = {}
        /\ \A t \in CurSet \cap PrevSet : \A i \in 1..Len(orders) : orders[i].Ticker # t
        /\ (CurSet = PrevSet => orders = <<>>)

C1_Witness ==
    /\ pc = "orders_built"
    /\ OrderTickers("ADD") # {} /\ OrderTickers("DROP") # {}
    /\ CurSet \cap PrevSet # {}

\* C6: an ADD row with a present, positive reference price p carries
\* qty = floor(T / p), T being the largest multiple of 1000 not above
\* portfolio_value / N (333000 for 1000000 and 3); with a missing or
\* non-positive price the quantity is blank with the manual-entry note; and
\* every symbol to add has its row whatever the prices of the others.
C6_AddQuantity ==
    pc = "orders_built" =>
        /\ \A i \in OrderRows("ADD") :
            LET o  == orders[i]
                px == Get(LastPrices(table), o.Ticker, NaN)
                T  == o.note.target
            IN  IF notna(px) /\ px > 0
                  THEN /\ o.qty.kind = "int"
                       /\ T % 1000 = 0
                       /\ T * sizing.top_n <= sizing.portfolio_value_native
                       /\ (T + 1000) * sizing.top_n > sizing.portfolio_value_native
                       /\ o.qty.n * px <= T
                       /\ T < (o.qty.n + 1) * px
                       /\ o.note.qty = o.qty.n
                       /\ (sizing = MainSizing => T = 333000)
                  ELSE o.qty = CellBlank /\ o.note = NoteMissing
        /\ CurSet \ PrevSet \subseteq OrderTickers("ADD")

C6_Witness ==
    /\ pc = "orders_built"
    /\ sizing = MainSizing
    /\ \E i, j \in OrderRows("ADD") :
          /\ orders[i].qty = CellInt(47571) /\ orders[i].ref_price = CellInt(7)
          /\ orders[j].qty = CellBlank /\ orders[j].ref_price = CellInt(0)

-----------------------------------------------------------------------------
(* The ranker on its own: lines 262-281 over bounded monthly tables        *)

\* a monthly close column of MinRows rows, by the trend flag and the
\* momentum it gives at the latest row
Shape(kind) ==
    [i \in 1..MinRows |->
        CASE kind = "up"      -> 100 + 2 * i
          [] kind = "strong"  -> 100 + 5 * i
          [] kind = "down"    -> 400 - 3 * i
          [] kind = "flat"    -> 100
          [] kind = "rebound" -> IF i < MinRows THEN 400 - 20 * i ELSE 300
          [] kind = "dip"     -> IF i < MinRows THEN 100 + 20 * i ELSE 200
          [] kind = "new"     -> IF i <= MinRows - MOM_MONTHS THEN NaN ELSE 50 + i
          [] kind = "newdown" -> IF i <= MinRows - MOM_MONTHS THEN NaN ELSE 200 - i]

Shapes == {"up", "strong", "down", "flat", "rebound", "dip", "new", "newdown"}

\* the non-empty subsequences of <<A, B, C, D>>
FinalChoices == {SelectSeq(<<A, B, C, D>>, LAMBDA t : t \in S) :
                    S \in (SUBSET {A, B, C, D}) \ {{}}}

InitRank ==
    /\ pc = "asof_written" /\ now = StartMonth /\ runs = 1
    /\ universe_csv = <<A, B, C, D>> /\ tickers = <<A, B, C, D>>
    /\ cv_d = <<>> /\ month_last = NoTable /\ corr_by_end = <<>>
    /\ final \in FinalChoices
    /\ traded_value_60d = [t \in {A, B, C, D} |-> IF t \in Range(final) THEN 2000000 ELSE NaN]
    /\ liq_ok = [t \in {A, B, C, D} |-> t \in Range(final)]
    /\ \E f \in [Range(final) -> Shapes] :
          close_m = [first |-> StartMonth - MinRows,
                     cols  |-> [t \in {A, B, C, D} |->
                                  IF t \in Range(final) THEN Shape(f[t]) ELSE Shape("flat")]]
    /\ corr = CorrMatrix({A, B, C, D}, {}, {}) /\ to_drop = {}
    /\ asof = Asof(StartMonth - 1)
    /\ table = <<>> /\ ranked = <<>>
    /\ picks_out = EmptyTickerFrame /\ prev_picks = EmptyTickerFrame
    /\ sizing = MainSizing /\ orders = <<>>
    /\ out_dir = <<>> /\ out_dir0 = <<>> /\ hist_dir = <<>> /\ hist_dir0 = <<>>
    /\ prev_run = NoRun
    /\ err = "none"

NextRank == Rank

SpecRank == InitRank /\ [][NextRank]_vars

\* the rank the ranked table gives a ticker
RankOf(t) == (CHOOSE i \in 1..Len(ranked) : ranked[i].Ticker = t)

\* the place of a ticker in the universe list
PlaceOf(t) == CHOOSE i \in 1..Len(tickers) : tickers[i] = t

\* C2: every eligible symbol with the trend flag ranks strictly better than
\* every eligible symbol without it, whatever the two momentum values are.
C2_TrendOutranks ==
    pc = "ranked" =>
        \A a, b \in Range(final) :
            (table[a].trend_ok /\ ~table[b].trend_ok) => RankOf(a) < RankOf(b)

C2_Witness ==
    /\ pc = "ranked"
    /\ \E a, b \in Range(final) :
          /\ table[a].trend_ok /\ isnaF(table[a].mom)
          /\ ~table[b].trend_ok /\ ~isnaF(table[b].mom) /\ table[b].mom[1] > 0
          /\ PlaceOf(b) < PlaceOf(a)
          /\ RankOf(a) < RankOf(b)

\* the order the claim describes: trend flag first, then the composite
\* score, a NaN score last within its group
ScoreBefore(ra, rb) ==
    \/ ra.trend_ok /\ ~rb.trend_ok
    \/ /\ ra.trend_ok = rb.trend_ok
       /\ \/ ~isnaF(ra.score) /\ isnaF(rb.score)
          \/ FracGt(ra.score, rb.score)

\* C8: the ranked table is the eligible symbols in the order (trend flag
\* descending, composite score descending), symbols of equal composite
\* score in universe order; ranks are 1..K, the pick flag is rank <= N and
\* the picks are the first min(N, K) of them.
C8_RankByScore ==
    pc = "ranked" =>
        /\ Len(ranked) = Len(final)
        /\ {ranked[i].Ticker : i \in 1..Len(ranked)} = Range(final)
        /\ \A i \in 1..Len(ranked) :
              ranked[i].rank = i /\ (ranked[i].pick <=> i <= TOP_N)
        /\ picks_out.Ticker =
              [i \in 1..(IF Len(final) < TOP_N THEN Len(final) ELSE TOP_N) |->
                  ranked[i].Ticker]
        /\ \A i, j \in 1..Len(ranked) :
              i < j =>
                 /\ ~ScoreBefore(table[ranked[j].Ticker], table[ranked[i].Ticker])
                 /\ (~ScoreBefore(table[ranked[i].Ticker], table[ranked[j].Ticker])
                        => PlaceOf(ranked[i].Ticker) < PlaceOf(ranked[j].Ticker))

-----------------------------------------------------------------------------
(* The deduplication loop on its own: lines 241-249 over bounded           *)
(* correlation matrices and traded values                                  *)

CorrVals == {NaN, 50, CORR_THRESHOLD}
TvVals == {NaN, 1000000, 2000000}

Pairs(S) == {p \in SUBSET S : Cardinality(p) = 2}

\* the symmetric matrices with a unit diagonal
CorrMatrices(S) ==
    {[a \in S |-> [b \in S |-> IF a = b THEN 100 ELSE f[{a, b}]]] :
        f \in [Pairs(S) -> CorrVals]}

InitDedup ==
    /\ pc = "monthly" /\ now = StartMonth /\ runs = 1
    /\ universe_csv = <<A, B, C, D>> /\ tickers = <<A, B, C, D>>
    /\ cv_d = <<>> /\ month_last = NoTable
    /\ traded_value_60d \in [{A, B, C, D} -> TvVals]
    /\ liq_ok = LiqOk(traded_value_60d)
    /\ close_m = [first |-> StartMonth - MinRows,
                  cols  |-> [t \in {A, B, C, D} |-> Shape("up")]]
    /\ \E m \in CorrMatrices({A, B, C, D}) :
          corr_by_end = [e \in {StartMonth - 1} |-> m]
    /\ corr = <<>> /\ to_drop = {} /\ final = <<>> /\ asof = <<>>
    /\ table = <<>> /\ ranked = <<>>
    /\ picks_out = EmptyTickerFrame /\ prev_picks = EmptyTickerFrame
    /\ sizing = MainSizing /\ orders = <<>>
    /\ out_dir = <<>> /\ out_dir0 = <<>> /\ hist_dir = <<>> /\ hist_dir0 = <<>>
    /\ prev_run = NoRun
    /\ err = "none"

NextDedup == Dedup

SpecDedup == InitDedup /\ [][NextDedup]_vars

AtOrAbove(a, b) == corr[a][b] # NaN /\ corr[a][b] >= CORR_THRESHOLD

Tv(t) == traded_value_60d[t]
BothDefined(a, b) == Tv(a) # NaN /\ Tv(b) # NaN

\* a pair that can account for x being marked: x is not the strictly higher
\* member, and on equal values x is the later column
Accounts(x, y) ==
    /\ x # y /\ AtOrAbove(x, y)
    /\ BothDefined(x, y) =>
          \/ Tv(x) < Tv(y)
          \/ Tv(x) = Tv(y) /\ PlaceOf(y) < PlaceOf(x)

\* C3: of every pair at or above the threshold at least one member is
\* marked; with two defined, different traded values the lower one is
\* marked, with equal values the later column; and a symbol is marked only
\* on account of a pair in which it is not the strictly higher member.
C3_LowerIsMarked ==
    pc = "dedup" =>
        /\ \A a, b \in Range(tickers) :
              (PlaceOf(a) < PlaceOf(b) /\ AtOrAbove(a, b)) =>
                 /\ a \in to_drop \/ b \in to_drop
                 /\ (BothDefined(a, b) /\ Tv(a) < Tv(b)) => a \in to_drop
                 /\ (BothDefined(a, b) /\ Tv(b) < Tv(a)) => b \in to_drop
                 /\ (BothDefined(a, b) /\ Tv(a) = Tv(b)) => b \in to_drop
        /\ \A x \in to_drop : \E y \in Range(tickers) : Accounts(x, y)

C3_Witness ==
    /\ pc = "dedup"
    /\ AtOrAbove(A, B) /\ Tv(A) = 2000000 /\ Tv(B) = 1000000
    /\ AtOrAbove(C, D) /\ Tv(C) = Tv(D) /\ Tv(C) # NaN
    /\ ~AtOrAbove(A, C) /\ ~AtOrAbove(A, D) /\ ~AtOrAbove(B, C) /\ ~AtOrAbove(B, D)
    /\ to_drop = {B, D}

Survivors == SelectSeq(tickers, LAMBDA t : t \notin to_drop)

\* C4: a second pass over the survivors of the first, with the same matrix
\* and traded values, marks nothing: no two survivors are at or above the
\* threshold.
C4_DedupIdempotent ==
    pc = "dedup" =>
        /\ ToDrop(Survivors, corr, traded_value_60d) = {}
        /\ \A a, b \in Range(Survivors) : a # b => ~AtOrAbove(a, b)

C4_Witness ==
    /\ pc = "dedup"
    /\ AtOrAbove(A, B) /\ AtOrAbove(B, C) /\ AtOrAbove(A, C)
    /\ Cardinality(to_drop) = 2
    /\ D \notin to_drop

-----------------------------------------------------------------------------
(* From the downloaded tables to the final universe: lines 211-253 over    *)
(* bounded daily tables and correlation matrices                           *)

DailyKinds == {"liquid", "edge", "thin", "fresh"}

FinalCorrMatrices(S) ==
    {[a \in S |-> [b \in S |-> IF a = b THEN 100 ELSE f[{a, b}]]] :
        f \in [Pairs(S) -> {50, 97}]}

InitFinal ==
    /\ pc = "downloaded" /\ now = StartMonth /\ runs = 1
    /\ tickers \in {<<A, B, C, D>>, <<A, CT, B, D>>}
    /\ universe_csv = tickers
    /\ \E k \in [Range(tickers) -> DailyKinds] :
          cv_d = [t \in Range(tickers) |-> Daily(k[t], liquidity_threshold(t))]
    /\ month_last = [first |-> StartMonth - MinRows,
                     cols  |-> [t \in Range(tickers) |-> Shape("up")]]
    /\ \E m \in FinalCorrMatrices(Range(tickers)) :
          corr_by_end = [e \in {StartMonth - 1} |-> m]
    /\ traded_value_60d = <<>> /\ liq_ok = <<>> /\ close_m = NoTable
    /\ corr = <<>> /\ to_drop = {} /\ final = <<>> /\ asof = <<>>
    /\ table = <<>> /\ ranked = <<>>
    /\ picks_out = EmptyTickerFrame /\ prev_picks = EmptyTickerFrame
    /\ sizing = MainSizing /\ orders = <<>>
    /\ out_dir = <<>> /\ out_dir0 = <<>> /\ hist_dir = <<>> /\ hist_dir0 = <<>>
    /\ prev_run = NoRun
    /\ err = "none"

NextFinal ==
    \/ Liquidity
    \/ Monthly
    \/ Dedup
    \/ Final
    \/ FailEmpty

SpecFinal == InitFinal /\ [][NextFinal]_vars

\* the last 60 daily observations of a ticker
Last60(t) == SubSeq(cv_d[t], Len(cv_d[t]) - 59, Len(cv_d[t]))

\* their average is defined and at least thr: the deviations from thr sum
\* to at least zero
AverageAtLeast(t, thr) ==
    /\ Len(cv_d[t]) >= 60
    /\ \A i \in 1..60 : Last60(t)[i] # NaN
    /\ SumSeq([i \in 1..60 |-> Last60(t)[i] - thr]) >= 0

MarketThreshold(t) == IF t = CT THEN 50000000 ELSE 1000000

Eligible(t) == AverageAtLeast(t, MarketThreshold(t)) /\ t \notin to_drop

\* C7: the final universe is the universe list restricted to the symbols
\* whose 60-observation average traded value is defined and at least their
\* market's threshold and that are not marked for correlation removal; an
\* undefined metric fails liquidity and the run goes on.  With universe
\* [A,B,C,D], only A,B,C liquid, A and B the one pair above the threshold
\* and A's traded value below B's, the final universe is [B,C].
C7_FinalUniverse ==
    /\ pc = "final" =>
          /\ final = SelectSeq(tickers, Eligible)
          /\ final # <<>>
    /\ (pc = "failed" /\ err = "RuntimeError: final universe became empty") =>
          \A t \in Range(tickers) : ~Eligible(t)
    /\ (/\ pc = "final" /\ tickers = <<A, B, C, D>>
        /\ \A t \in {A, B, C} : AverageAtLeast(t, 1000000)
        /\ ~AverageAtLeast(D, 1000000)
        /\ \A p \in Pairs({A, B, C, D}) :
              (\A x, y \in p : x # y => corr[x][y] >= CORR_THRESHOLD) <=> p = {A, B}
        /\ traded_value_60d[A] < traded_value_60d[B])
          => final = <<B, C>>

C7_Witness ==
    /\ pc = "final" /\ tickers = <<A, B, C, D>>
    /\ \A t \in {A, B, C} : AverageAtLeast(t, 1000000)
    /\ \E i \in 1..60 : Last60(D)[i] = NaN
    /\ traded_value_60d[A] = 1000000 /\ traded_value_60d[B] = 1000600
    /\ corr[A][B] = 97
    /\ to_drop = {A}
    /\ final = <<B, C>>

-----------------------------------------------------------------------------
(* The history lookup on its own: lines 284-342 over bounded histories     *)

SnapshotDates == {<<2023, 12, 31>>, <<2024, 1, 31>>, <<2024, 2, 29>>, <<2024, 3, 31>>}

PickFrames ==
    {DataFrame({"Ticker", "rank", "pick"}, <<A, B, C>>),
     DataFrame({"Ticker", "rank", "pick"}, <<B, D>>),
     DataFrame({"Symbol"}, <<>>)}

\* a history of earlier runs: snapshots under some of the dates, and
\* possibly a file whose name carries no date
Histories ==
    {[f \in {HistName("picks", d, "csv") : d \in S} \cup J |->
        IF f \in J THEN DataFrame({"Ticker", "rank", "pick"}, <<D>>) ELSE c[f.tag]] :
        S \in SUBSET SnapshotDates,
        c \in [SnapshotDates -> PickFrames],
        J \in {{}, {HistName("picks", <<2024, 1>>, "csv")}}}

InitHist ==
    /\ pc = "ranked" /\ now = StartMonth /\ runs = 1
    /\ universe_csv = <<A, B, C, D>> /\ tickers = <<A, B, C, D>>
    /\ cv_d = <<>> /\ month_last = NoTable /\ corr_by_end = <<>>
    /\ traded_value_60d = <<>> /\ liq_ok = <<>> /\ close_m = NoTable
    /\ corr = <<>> /\ to_drop = {}
    /\ final \in {<<A, B, C>>, <<B, C, D>>}
    /\ asof \in {<<2024, 1, 31>>, <<2024, 2, 29>>}
    /\ table = [t \in {A, B, C, D} |-> PriceRow(1000)]
    /\ ranked = [i \in 1..Len(final) |-> [Ticker |-> final[i], rank |-> i, pick |-> TRUE]]
    /\ picks_out = DataFrame({"Ticker", "rank", "pick"}, final)
    /\ prev_picks = EmptyTickerFrame
    /\ sizing = MainSizing /\ orders = <<>>
    /\ out_dir = <<>> /\ out_dir0 = <<>>
    /\ hist_dir0 \in Histories
    /\ hist_dir = WriteFile(hist_dir0, HistName("asof", asof, "txt"), asof)
    /\ prev_run = NoRun
    /\ err = "none"

NextHist ==
    \/ WriteRanking
    \/ LoadPrev
    \/ FailPrev
    \/ BuildOrders

SpecHist == InitHist /\ [][NextHist]_vars

\* calendar order of two dates
DateBefore(d, e) ==
    \/ d[1] < e[1]
    \/ d[1] = e[1] /\ d[2] < e[2]
    \/ d[1] = e[1] /\ d[2] = e[2] /\ d[3] < e[3]

\* the pick snapshots of the history that carry a date before the as-of date
EarlierSnapshots ==
    {f \in DOMAIN hist_dir :
        /\ f.prefix = "picks" /\ f.ext = "csv" /\ Len(f.tag) = 3
        /\ DateBefore(f.tag, asof)}

IsLatestEarlier(f) ==
    /\ f \in EarlierSnapshots
    /\ \A g \in EarlierSnapshots : g = f \/ DateBefore(g.tag, f.tag)

\* C5: the previous picks are the snapshot of the greatest date strictly
\* before the as-of date, files without a date in their name being ignored;
\* without such a snapshot they are empty, and the orders are then an ADD
\* for every current pick and no DROP.
C5_PrevIsLatestEarlier ==
    /\ pc \in {"prev_loaded", "orders_built"} =>
          IF EarlierSnapshots = {} THEN prev_picks.Ticker = <<>>
          ELSE \E f \in EarlierSnapshots : IsLatestEarlier(f) /\ prev_picks = hist_dir[f]
    /\ (pc = "orders_built" /\ EarlierSnapshots = {}) =>
          /\ OrderTickers("ADD") = CurSet
          /\ OrderRows("DROP") = {}
          /\ Len(orders) = Cardinality(CurSet)
    /\ pc = "failed" =>
          \E f \in EarlierSnapshots : IsLatestEarlier(f) /\ "Ticker" \notin hist_dir[f].columns

C5_Witness ==
    /\ pc = "orders_built"
    /\ asof = <<2024, 2, 29>>
    /\ HistName("picks", <<2024, 1>>, "csv") \in DOMAIN hist_dir
    /\ HistName("picks", <<2024, 3, 31>>, "csv") \in DOMAIN hist_dir
    /\ HistName("picks", <<2023, 12, 31>>, "csv") \in DOMAIN hist_dir
    /\ HistName("picks", <<2024, 1, 31>>, "csv") \in DOMAIN hist_dir
    /\ prev_picks = hist_dir[HistName("picks", <<2024, 1, 31>>, "csv")]
    /\ prev_picks # hist_dir[HistName("picks", <<2023, 12, 31>>, "csv")]
    /\ prev_picks # hist_dir[HistName("picks", asof, "csv")]
    /\ OrderRows("DROP") # {}

-----------------------------------------------------------------------------
(* Claims about whole runs, checked under Spec                             *)

\* main() has passed the monthly aggregation in the current run
PastMonthly ==
    pc \in {"monthly", "dedup", "final", "asof_written", "ranked",
            "ranking_written", "prev_loaded", "orders_built", "orders_written",
            "done"}

PastDedup == PastMonthly /\ pc # "monthly"
PastFinal == PastDedup /\ pc # "dedup"
PastRank == PastFinal /\ pc \notin {"final", "asof_written"}

\* the downloaded monthly table has a row for the month of the processing time
OpenMonthRow == LastLabel(month_last) = now

\* the rows of the downloaded table that belong to closed months
ClosedRows == IF OpenMonthRow THEN NRows(month_last) - 1 ELSE NRows(month_last)

\* the month a date lies in
MonthOf(d) == 12 * d[1] + (d[2] - 1)

\* the history files the current run has written or changed
WrittenHistory ==
    {f \in DOMAIN hist_dir : f \notin DOMAIN hist_dir0 \/ hist_dir[f] # hist_dir0[f]}

\* C9: when the latest monthly row lies in the month of the processing
\* time, the table that is scored is the downloaded one without that row:
\* close, moving average, momentum and trend flag are those of the last
\* closed month, the correlation is that of the closed months, and the
\* as-of date, like every history file the run writes, is dated before the
\* current month.
C9_OpenMonthDropped ==
    /\ (PastMonthly /\ OpenMonthRow) =>
          /\ LastLabel(close_m) = now - 1
          /\ \A t \in DOMAIN month_last.cols :
                close_m.cols[t] = SubSeq(month_last.cols[t], 1, ClosedRows)
    /\ (PastDedup /\ OpenMonthRow) => corr = corr_by_end[now - 1]
    /\ (PastFinal /\ OpenMonthRow) => (asof = Asof(now - 1) /\ MonthOf(asof) < now)
    /\ (PastRank /\ OpenMonthRow) =>
          \A t \in Range(tickers) :
             LET col == month_last.cols[t]
                 c   == col[ClosedRows]
                 b   == col[ClosedRows - MOM_MONTHS]
                 win == SubSeq(col, ClosedRows - MA_MONTHS + 1, ClosedRows)
                 def == \A i \in 1..MA_MONTHS : win[i] # NaN
             IN  /\ table[t].close = c
                 /\ table[t].ma = IF def THEN <<SumSeq(win), MA_MONTHS>> ELSE FracNaN
                 /\ table[t].mom = IF c = NaN \/ b = NaN THEN FracNaN ELSE <<c - b, b>>
                 /\ table[t].trend_ok = (def /\ c # NaN /\ c * MA_MONTHS > SumSeq(win))
    /\ \A f \in WrittenHistory : Len(f.tag) = 3 /\ MonthOf(f.tag) < now

C9_Witness ==
    /\ pc = "done" /\ OpenMonthRow
    /\ asof = Asof(now - 1)
    /\ HistName("picks", asof, "csv") \in WrittenHistory
    /\ \E t \in Range(tickers) :
          /\ table[t].trend_ok # TrendLatest(month_last.cols[t])
          /\ table[t].close # CloseLatest(month_last.cols[t])
    /\ corr # corr_by_end[now]

\* C10: a run that ends in a fatal error has written nothing: out/ and
\* out/history/ are as they were when the run started.
C10_FatalBeforeOutput ==
    pc = "failed" => (out_dir = out_dir0 /\ hist_dir = hist_dir0)

\* the run has looked up the previous picks
PastPrev == pc \in {"prev_loaded", "orders_built", "orders_written", "done"}

\* the pick snapshot stored under the as-of date of the current run
OwnSnapshot == HistName("picks", asof, "csv")

\* the dated pick snapshots the run found that are stored under another date
OtherSnapshots ==
    {f \in DOMAIN hist_dir0 :
        f.prefix = "picks" /\ f.ext = "csv" /\ Len(f.tag) = 3 /\ f.tag # asof}

\* the run has ended, the run before it had ended, and both read the same
\* universe and the same downloaded tables and worked for the same date
RepeatedRun ==
    /\ pc \in {"done", "failed"} /\ prev_run.pc \in {"done", "failed"}
    /\ prev_run.universe_csv = universe_csv
    /\ prev_run.cv_d = cv_d
    /\ prev_run.month_last = month_last
    /\ prev_run.corr_by_end = corr_by_end
    /\ prev_run.asof = asof

\* a record of the run without its generation timestamp
Undated(r) == [k \in DOMAIN r \ {"generated_at_utc"} |-> r[k]]

SameFile(f) ==
    IF f.prefix \in {"meta", "status"}
    THEN Undated(hist_dir[f]) = Undated(hist_dir0[f])
    ELSE hist_dir[f] = hist_dir0[f]

\* C11: the previous picks a run for date D diffs against are those of a
\* snapshot stored under another date (or empty), never those stored under
\* D, whether this run or an earlier one wrote them; every history file the
\* run writes or changes is stored under D; and a run that repeats the run
\* before it, on the same inputs and for the same D, ends the same way with
\* the same picks and the same orders, and leaves the history as it found
\* it: every snapshot unchanged, the run records unchanged but for their
\* generation timestamp.
C11_RepeatedRun ==
    /\ PastPrev =>
          \/ \E f \in OtherSnapshots :
                DateBefore(f.tag, asof) /\ prev_picks = hist_dir0[f]
          \/ prev_picks = EmptyTickerFrame
                /\ \A f \in OtherSnapshots : ~DateBefore(f.tag, asof)
    /\ DOMAIN hist_dir0 \subseteq DOMAIN hist_dir
    /\ \A f \in WrittenHistory : f.tag = asof
    /\ RepeatedRun =>
          /\ pc = prev_run.pc
          /\ picks_out = prev_run.picks_out
          /\ orders = prev_run.orders
          /\ DOMAIN hist_dir = DOMAIN hist_dir0
          /\ \A f \in DOMAIN hist_dir : SameFile(f)

\* a second run for the same date on the same inputs has ended: the history
\* held the snapshot of that date before it started, the snapshot differs
\* from the previous picks, and the orders are not empty
C11_Witness ==
    /\ RepeatedRun /\ pc = "done" /\ runs = 2
    /\ OwnSnapshot \in DOMAIN hist_dir0
    /\ OtherSnapshots # {}
    /\ prev_picks # hist_dir[OwnSnapshot]
    /\ orders # <<>>

\* the traded-value metric of a symbol is undefined
Undefined(t) == Tv(t) = NaN

\* C12: an undefined traded value counts as the lowest. Of a pair at or
\* above the threshold with exactly one undefined member, the undefined
\* member is marked, in whichever column order the two come; and a symbol
\* that passes liquidity is marked only on account of a partner whose
\* traded value is defined.
C12_UndefinedIsLowest ==
    pc = "dedup" =>
        /\ \A a, b \in Range(tickers) :
              (a # b /\ AtOrAbove(a, b) /\ Undefined(a) /\ ~Undefined(b)) =>
                 a \in to_drop
        /\ \A x \in to_drop :
              liq_ok[x] =>
                 \E y \in Range(tickers) :
                    y # x /\ AtOrAbove(x, y) /\ ~Undefined(y)

=============================================================================
